---- MODULE Spec2Model ----
(***************************************************************************)
(* A model of builder/src/lib.rs: the derive(Builder) procedural macro and *)
(* the builder it emits.                                                   *)
(*                                                                         *)
(* Two levels are modelled.  The generator (derive and the functions it    *)
(* calls) is a pure function from a parsed declaration to the emitted      *)
(* items; it is written here as operators over the declaration.  The       *)
(* emitted items (the builder struct, builder(), the mutators, build and   *)
(* assert_non_missing_values) are then run: the actions of the state       *)
(* machine interpret exactly what the generator emitted for the            *)
(* declaration at hand.                                                    *)
(***************************************************************************)
EXTENDS Integers, Sequences, FiniteSets, TLC

VARIABLES
    input,      \* the DeriveInput handed to derive
    gen,        \* what derive produced: nothing yet, a panic, or the emitted items
    compiled,   \* whether the emitted items were compiled and can be called
    builders,   \* builder instances created by builder(): id -> (field -> storage)
    passed,     \* history: id -> (field -> values passed to that field's mutator)
    nBuilds,    \* history: id -> number of build calls made on that builder
    calls,      \* number of calls made on the emitted items so far
    last,       \* the last call made: its operation and the builder it was made on
    ret,        \* what the last call returned
    prev        \* what the call before the last one returned

vars == <<input, gen, compiled, builders, passed, nBuilds, calls, last, ret, prev>>

(***************************************************************************)
(* Bounds of the exploration.                                              *)
(***************************************************************************)
MaxCalls == 5       \* calls explored on the builders of one declaration
MaxBuilders == 2    \* builder() calls explored in the two-builder specification
MaxCallsTwo == 2    \* calls explored in the two-builder specification

FieldNames == <<"name", "note", "tag">>     \* the identifiers fields are drawn from
Values == {"a", "b"}                        \* the String values passed to mutators

(***************************************************************************)
(* syn's view of a declaration.                                            *)
(*   type:      [kind, segments], segments a sequence of                   *)
(*              [ident, arguments, args]                                   *)
(*   attribute: what Attribute::parse_meta gives: [meta, path, nested];    *)
(*              meta = "Err" when parse_meta fails                         *)
(*   field:     [vis, ident, ty, attrs]                                    *)
(*   input:     [ident, data, fields, named]                               *)
(***************************************************************************)
Seg(id, arguments, args) == [ident |-> id, arguments |-> arguments, args |-> args]

TyString == [kind |-> "Path", segments |-> <<Seg("String", "None", <<>>)>>]
TyOptionString == [kind |-> "Path",
                   segments |-> <<Seg("Option", "AngleBracketed", <<"String">>)>>]
TyVecString == [kind |-> "Path",
                segments |-> <<Seg("Vec", "AngleBracketed", <<"String">>)>>]
TyStdOptionString == [kind |-> "Path",
                      segments |-> <<Seg("std", "None", <<>>), Seg("option", "None", <<>>),
                                     Seg("Option", "AngleBracketed", <<"String">>)>>]
TyBareOption == [kind |-> "Path", segments |-> <<Seg("Option", "None", <<>>)>>]
TyOptionTwoArgs == [kind |-> "Path",
                    segments |-> <<Seg("Option", "AngleBracketed", <<"String", "String">>)>>]
TyOptionAssoc == [kind |-> "Path",
                  segments |-> <<Seg("Option", "None", <<>>), Seg("Item", "None", <<>>)>>]
TyTuple == [kind |-> "Tuple", segments |-> <<>>]

NameValue(key, lit, value) == [kind |-> "NameValue", name |-> key, lit |-> lit, value |-> value]
NestedPath(p) == [kind |-> "Path", name |-> p, lit |-> "None", value |-> ""]

MetaList(p, nested) == [meta |-> "List", path |-> p, nested |-> nested]
MetaPath(p) == [meta |-> "Path", path |-> p, nested |-> <<>>]
MetaNameValue(p) == [meta |-> "NameValue", path |-> p, nested |-> <<>>]

Each(appender) == MetaList("builder", <<NameValue("each", "Str", appender)>>)

MetaErr == [meta |-> "Err", path |-> "", nested |-> <<>>]

Field(id, ty, attrs) == [vis |-> "pub", ident |-> id, ty |-> ty, attrs |-> attrs]

(***************************************************************************)
(* The fields explored under each identifier.  The first three are the     *)
(* shapes of the three kinds; the others are the shapes on which the       *)
(* generator's stages have to agree.                                       *)
(***************************************************************************)
PlainFields(id) ==
    { Field(id, TyString, <<>>),
      Field(id, TyOptionString, <<>>),
      Field(id, TyVecString, <<Each("push_" \o id)>>) }

OtherFields(id) ==
    { Field(id, TyOptionString, <<Each("push_" \o id)>>),
      Field(id, TyStdOptionString, <<>>),
      Field(id, TyTuple, <<>>),
      Field(id, TyBareOption, <<>>),
      Field(id, TyString, <<MetaErr>>),
      Field(id, TyString, <<MetaPath("inline")>>),
      Field(id, TyString, <<MetaNameValue("doc")>>),
      Field(id, TyVecString, <<MetaNameValue("doc"), Each(id)>>),
      Field(id, TyString, <<MetaList("serde", <<NestedPath("skip")>>)>>),
      Field(id, TyOptionTwoArgs, <<>>),
      Field(id, TyOptionAssoc, <<>>),
      Field(id, TyString, <<MetaPath("builder")>>),
      Field(id, TyVecString, <<MetaList("builder", <<>>)>>),
      Field(id, TyVecString, <<MetaList("builder", <<NameValue("each", "Str", "push_a"),
                                                     NameValue("each", "Str", "push_b")>>)>>),
      Field(id, TyVecString, <<MetaList("builder", <<NestedPath("each")>>)>>),
      Field(id, TyVecString, <<MetaList("builder", <<NameValue("each", "Int", "1")>>)>>),
      Field(id, TyVecString, <<MetaList("builder", <<NameValue("other", "Str", "push_" \o id)>>)>>),
      Field(id, TyOptionString, <<MetaList("builder", <<>>)>>),
      Field(id, TyVecString, <<MetaList("builder", <<NameValue("each", "Str", "")>>)>>),
      Field(id, TyString, <<Each("push_" \o id)>>) }

RECURSIVE FieldLists(_)
FieldLists(n) ==
    IF n = 0 THEN { <<>> }
    ELSE LET shorter == FieldLists(n - 1)
         IN  shorter \cup
             { Append(fs, f) : fs \in { s \in shorter : Len(s) = n - 1 },
                               f \in PlainFields(FieldNames[n]) }

NamedStruct(fs) == [ident |-> "Command", data |-> "Struct", fields |-> "Named", named |-> fs]

Inputs ==
    { NamedStruct(fs) : fs \in FieldLists(Len(FieldNames)) }
    \cup { NamedStruct(<<f>>) : f \in OtherFields(FieldNames[1]) }
    \cup { NamedStruct(<<f, g>>) : f \in OtherFields(FieldNames[1]),
                                  g \in PlainFields(FieldNames[2]) }
    \cup { [ident |-> "Command", data |-> d, fields |-> s, named |-> <<>>] :
             d \in {"Struct"}, s \in {"Unnamed", "Unit"} }
    \cup { [ident |-> "Command", data |-> d, fields |-> "Unit", named |-> <<>>] :
             d \in {"Enum", "Union"} }

(***************************************************************************)
(* Token rendering (quote!, format!).                                      *)
(***************************************************************************)
RECURSIVE RenderArgs(_)
RenderArgs(args) ==
    IF args = <<>> THEN ""
    ELSE IF Len(args) = 1 THEN args[1]
    ELSE args[1] \o ", " \o RenderArgs(Tail(args))

RenderSeg(seg) ==
    IF seg.arguments = "AngleBracketed"
    THEN seg.ident \o "<" \o RenderArgs(seg.args) \o ">"
    ELSE seg.ident

RECURSIVE RenderSegs(_)
RenderSegs(segs) ==
    IF Len(segs) = 1 THEN RenderSeg(segs[1])
    ELSE RenderSeg(segs[1]) \o "::" \o RenderSegs(Tail(segs))

RenderTy(ty) == IF ty.kind = "Path" THEN RenderSegs(ty.segments) ELSE "(String, String)"

\* Ident::new panics on a string that is no identifier
ValidIdent(s) == s # ""

(***************************************************************************)
(* The predicates every stage classifies a field with.                     *)
(***************************************************************************)
is_optional(f) ==
    /\ f.ty.kind = "Path"
    /\ f.ty.segments[1].ident = "Option"

is_builder_attr_panics(attr) == attr.meta = "Err"

is_builder_attr(attr) == attr.meta = "List" /\ attr.path = "builder"

\* Iterator::any stops at the first attribute that is a builder attribute
is_builder_field_panics(f) ==
    \E i \in 1..Len(f.attrs) :
        /\ is_builder_attr_panics(f.attrs[i])
        /\ \A j \in 1..(i - 1) : ~is_builder_attr(f.attrs[j])

is_builder_field(f) == \E i \in 1..Len(f.attrs) : is_builder_attr(f.attrs[i])

optional_inner_ty_panics(f) ==
    \/ f.ty.kind # "Path"
    \/ Len(f.ty.segments) # 1
    \/ f.ty.segments[1].arguments # "AngleBracketed"

optional_inner_ty(f) == RenderArgs(f.ty.segments[1].args)

\* the first attribute at which the loop of builder_attr_each stops
EachStops(f) ==
    { i \in 1..Len(f.attrs) : f.attrs[i].meta = "Err" \/ is_builder_attr(f.attrs[i]) }

FirstStop(f) == CHOOSE i \in EachStops(f) : \A j \in EachStops(f) : i <= j

builder_attr_each_panics(f) ==
    \/ EachStops(f) = {}
    \/ LET attr == f.attrs[FirstStop(f)]
       IN  \/ attr.meta = "Err"
           \/ Len(attr.nested) # 1
           \/ attr.nested[1].kind # "NameValue"
           \/ attr.nested[1].lit # "Str"
           \/ ~ValidIdent(attr.nested[1].value)

builder_attr_each(f) == f.attrs[FirstStop(f)].nested[1].value

(***************************************************************************)
(* The synthesis stages.  Each maps the field list to the items it emits,  *)
(* in field order; X_panics tells when the stage panics instead.           *)
(***************************************************************************)
\* only the match on Data guards the field list
ExtractPanicsUnlessStruct(in) == in.data # "Struct"

extract_fields_panics(in) == ~(in.data = "Struct" /\ in.fields = "Named")

extract_fields(in) == in.named

builder_fields_panics(fields) ==
    \E i \in 1..Len(fields) : ~is_optional(fields[i]) /\ is_builder_field_panics(fields[i])

\* the type of the builder's field: #ty, or std::option::Option< #ty >
StorageTy(f) ==
    IF is_optional(f) \/ is_builder_field(f)
    THEN f.ty
    ELSE [kind |-> "Path",
          segments |-> <<Seg("std", "None", <<>>), Seg("option", "None", <<>>),
                         Seg("Option", "AngleBracketed", <<RenderTy(f.ty)>>)>>]

builder_fields(fields) ==
    [i \in 1..Len(fields) |->
        [vis |-> fields[i].vis, ident |-> fields[i].ident, ty |-> StorageTy(fields[i])]]

SetterPanics(f) ==
    IF is_optional(f) THEN optional_inner_ty_panics(f)
    ELSE \/ is_builder_field_panics(f)
         \/ is_builder_field(f) /\ builder_attr_each_panics(f)

builder_setters_panics(fields) == \E i \in 1..Len(fields) : SetterPanics(fields[i])

Setter(f) ==
    IF is_optional(f)
    THEN [name |-> f.ident, arg |-> optional_inner_ty(f), body |-> "set_some",
          field |-> f.ident]
    ELSE IF is_builder_field(f)
         THEN [name |-> builder_attr_each(f), arg |-> "String", body |-> "push",
               field |-> f.ident]
         ELSE [name |-> f.ident, arg |-> RenderTy(f.ty), body |-> "set_some",
               field |-> f.ident]

\* every mutator writing the storage of the first field
SettersWriteFirstField(fields) ==
    [i \in 1..Len(fields) |-> [Setter(fields[i]) EXCEPT !.field = fields[1].ident]]

builder_setters(fields) == [i \in 1..Len(fields) |-> Setter(fields[i])]

builder_defaults_panics(fields) ==
    \E i \in 1..Len(fields) : is_builder_field_panics(fields[i])

Default(f) ==
    IF is_builder_field(f)
    THEN [ident |-> f.ident, value |-> "Vec::new()"]
    ELSE [ident |-> f.ident, value |-> "std::option::Option::None"]

builder_defaults(fields) == [i \in 1..Len(fields) |-> Default(fields[i])]

builder_build_panics(fields) ==
    \E i \in 1..Len(fields) :
        \/ ~is_optional(fields[i]) /\ is_builder_field_panics(fields[i])
        \/ is_builder_field_panics(fields[i])

\* the filter without its is_optional test
CheckedUnlessBuilder(f) == is_builder_field(f) = FALSE

\* the fields build validates: the filter of missing_values_checkers
Checked(f) == is_optional(f) = FALSE /\ is_builder_field(f) = FALSE

Checker(f) == [ident |-> f.ident, ident_str |-> f.ident]

\* only the first field gets a checker
CheckersOfFirstField(fields) ==
    IF fields # <<>> /\ Checked(Head(fields)) THEN <<Checker(Head(fields))>> ELSE <<>>

RECURSIVE missing_values_checkers(_)
missing_values_checkers(fields) ==
    IF fields = <<>> THEN <<>>
    ELSE IF Checked(Head(fields))
         THEN <<Checker(Head(fields))>> \o missing_values_checkers(Tail(fields))
         ELSE missing_values_checkers(Tail(fields))

Local(f) ==
    [ident |-> f.ident,
     local |-> f.ident \o "_local",
     drain |-> IF is_builder_field(f) THEN "clone"
               ELSE IF is_optional(f) THEN "take_if_some"
               ELSE "take_unwrap"]

locals(fields) == [i \in 1..Len(fields) |-> Local(fields[i])]

\* every field initialised from the first field's local
InitializersFirstLocal(fields) ==
    [i \in 1..Len(fields) |->
        [ident |-> fields[i].ident, local |-> fields[1].ident \o "_local"]]

initializers(fields) ==
    [i \in 1..Len(fields) |->
        [ident |-> fields[i].ident, local |-> fields[i].ident \o "_local"]]

builder_build(fields) ==
    [checkers |-> missing_values_checkers(fields),
     locals |-> locals(fields),
     initializers |-> initializers(fields)]

(***************************************************************************)
(* derive: the items emitted for a declaration, or the panic that aborts   *)
(* the expansion.                                                          *)
(***************************************************************************)
NotRun == [status |-> "none"]
Aborted == [status |-> "aborted"]

derive_panics(in) ==
    \/ extract_fields_panics(in)
    \/ builder_defaults_panics(extract_fields(in))
    \/ builder_setters_panics(extract_fields(in))
    \/ builder_fields_panics(extract_fields(in))
    \/ builder_build_panics(extract_fields(in))

derive(in) ==
    IF derive_panics(in) THEN Aborted
    ELSE LET fields == extract_fields(in)
         IN  [status |-> "emitted",
              base_ident |-> in.ident,
              builder_ident |-> in.ident \o "Builder",
              builder_fields |-> builder_fields(fields),
              defaults |-> builder_defaults(fields),
              setters |-> builder_setters(fields),
              build |-> builder_build(fields)]

(***************************************************************************)
(* rustc on the emitted items.  An expansion that does not type-check is   *)
(* rejected by the compiler and nothing of it ever runs.                   *)
(***************************************************************************)
LastSeg(ty) == ty.segments[Len(ty.segments)]

IsGeneric(ty, id) ==
    /\ ty.kind = "Path"
    /\ LastSeg(ty).ident = id
    /\ LastSeg(ty).arguments = "AngleBracketed"
    /\ Len(LastSeg(ty).args) = 1

IsOptionTy(ty) ==
    /\ IsGeneric(ty, "Option")
    /\ \/ Len(ty.segments) = 1
       \/ /\ Len(ty.segments) = 3
          /\ ty.segments[1].ident = "std"
          /\ ty.segments[2].ident = "option"

IsVecTy(ty) == IsGeneric(ty, "Vec") /\ Len(ty.segments) = 1

InnerTy(ty) == LastSeg(ty).args[1]

FieldTypeChecks(f, code, i) ==
    LET S == code.builder_fields[i].ty
        d == code.defaults[i]
        s == code.setters[i]
        l == code.build.locals[i]
    IN  /\ d.value = "Vec::new()" => IsVecTy(S)
        /\ d.value = "std::option::Option::None" => IsOptionTy(S)
        /\ s.body = "set_some" => IsOptionTy(S) /\ InnerTy(S) = s.arg
        /\ s.body = "push" => IsVecTy(S) /\ InnerTy(S) = s.arg
        /\ l.drain = "clone" => S = f.ty
        /\ l.drain = "take_if_some" => IsOptionTy(S) /\ S = f.ty
        /\ l.drain = "take_unwrap" => IsOptionTy(S) /\ InnerTy(S) = RenderTy(f.ty)
        /\ \A c \in 1..Len(code.build.checkers) :
               code.build.checkers[c].ident = f.ident => IsOptionTy(S)

Compiles(in, code) ==
    /\ \A i \in 1..Len(in.named) : FieldTypeChecks(in.named[i], code, i)
    /\ \A i, j \in 1..Len(code.setters) :
           code.setters[i].name = code.setters[j].name => i = j
    /\ \A i \in 1..Len(code.setters) :
           code.setters[i].name \notin {"build", "assert_non_missing_values"}

\* the expansions that are run here: every mutator takes a String
Runnable(in, code) ==
    /\ code.status = "emitted"
    /\ Compiles(in, code)
    /\ \A i \in 1..Len(code.setters) : code.setters[i].arg = "String"

(***************************************************************************)
(* Run-time values.                                                        *)
(***************************************************************************)
None == [tag |-> "None", val |-> <<>>]
Some(v) == [tag |-> "Some", val |-> <<v>>]
VecOf(s) == [tag |-> "Vec", val |-> s]
Str(v) == [tag |-> "String", val |-> <<v>>]

is_none(o) == o.tag = "None"
is_some(o) == o.tag = "Some"
unwrap(o) == Str(o.val[1])

Idents(items) == { items[i].ident : i \in 1..Len(items) }

NoInstance == [n \in {} |-> None]

NoCall == [op |-> "none", b |-> 0, name |-> ""]
NoRet == [kind |-> "None", b |-> 0, instance |-> NoInstance, msg |-> ""]
SelfRef(b) == [kind |-> "SelfRef", b |-> b, instance |-> NoInstance, msg |-> ""]
BuilderRet(b) == [kind |-> "Builder", b |-> b, instance |-> NoInstance, msg |-> ""]
Ok(b, instance) == [kind |-> "Ok", b |-> b, instance |-> instance, msg |-> ""]
Err(b, msg) == [kind |-> "Err", b |-> b, instance |-> NoInstance, msg |-> msg]
Panic(b) == [kind |-> "Panic", b |-> b, instance |-> NoInstance, msg |-> ""]

(***************************************************************************)
(* The emitted builder(): a builder holding the emitted defaults.          *)
(***************************************************************************)
DefaultValue(d) == IF d.value = "Vec::new()" THEN VecOf(<<>>) ELSE None

ItemFor(items, id) == items[CHOOSE i \in 1..Len(items) : items[i].ident = id]

builder(code) == [id \in Idents(code.defaults) |-> DefaultValue(ItemFor(code.defaults, id))]

(***************************************************************************)
(* The emitted mutators.                                                   *)
(***************************************************************************)
\* a setter that leaves a populated field as it is
MutateKeepsFirst(self, s, v) ==
    IF s.body = "push"
    THEN [self EXCEPT ![s.field] = VecOf(Append(self[s.field].val, v))]
    ELSE IF is_some(self[s.field]) THEN self
    ELSE [self EXCEPT ![s.field] = Some(v)]

Mutate(self, s, v) ==
    IF s.body = "push"
    THEN [self EXCEPT ![s.field] = VecOf(Append(self[s.field].val, v))]
    ELSE [self EXCEPT ![s.field] = Some(v)]

(***************************************************************************)
(* The emitted assert_non_missing_values and build.                        *)
(***************************************************************************)
\* format!: the message's two backquotes are written ' here
MissingMsg(ident_str) == "Field '" \o ident_str \o "' has a no value"

\* the checkers run last to first
RECURSIVE AssertLastFirst(_, _)
AssertLastFirst(checkers, self) ==
    IF checkers = <<>> THEN ""
    ELSE IF is_none(self[checkers[Len(checkers)].ident])
         THEN MissingMsg(checkers[Len(checkers)].ident_str)
         ELSE AssertLastFirst(SubSeq(checkers, 1, Len(checkers) - 1), self)

\* the message of the first checker that returns, "" when none does
RECURSIVE assert_non_missing_values(_, _)
assert_non_missing_values(checkers, self) ==
    IF checkers = <<>> THEN ""
    ELSE IF is_none(self[Head(checkers).ident])
         THEN MissingMsg(Head(checkers).ident_str)
         ELSE assert_non_missing_values(Tail(checkers), self)

\* the sequence moved out of the builder instead of cloned
DrainOneMovesVec(l, self) ==
    IF l.drain = "clone"
    THEN [panic |-> FALSE, value |-> self[l.ident],
          self |-> [self EXCEPT ![l.ident] = VecOf(<<>>)]]
    ELSE IF l.drain = "take_if_some"
    THEN IF is_some(self[l.ident])
         THEN [panic |-> FALSE, value |-> self[l.ident],
               self |-> [self EXCEPT ![l.ident] = None]]
         ELSE [panic |-> FALSE, value |-> None, self |-> self]
    ELSE IF is_none(self[l.ident])
         THEN [panic |-> TRUE, value |-> None, self |-> self]
         ELSE [panic |-> FALSE, value |-> unwrap(self[l.ident]),
               self |-> [self EXCEPT ![l.ident] = None]]

\* Required and Optional values cloned out of the builder instead of taken
DrainOneClones(l, self) ==
    IF l.drain \in {"clone", "take_if_some"}
    THEN [panic |-> FALSE, value |-> self[l.ident], self |-> self]
    ELSE IF is_none(self[l.ident])
         THEN [panic |-> TRUE, value |-> None, self |-> self]
         ELSE [panic |-> FALSE, value |-> unwrap(self[l.ident]), self |-> self]

\* the Optional storage handed over and left as it is
DrainOneKeepsOptional(l, self) ==
    IF l.drain \in {"clone", "take_if_some"}
    THEN [panic |-> FALSE, value |-> self[l.ident], self |-> self]
    ELSE IF is_none(self[l.ident])
         THEN [panic |-> TRUE, value |-> None, self |-> self]
         ELSE [panic |-> FALSE, value |-> unwrap(self[l.ident]),
               self |-> [self EXCEPT ![l.ident] = None]]

\* one let statement of build: the local's value and what is left in self
DrainOne(l, self) ==
    IF l.drain = "clone"
    THEN [panic |-> FALSE, value |-> self[l.ident], self |-> self]
    ELSE IF l.drain = "take_if_some"
    THEN IF is_some(self[l.ident])
         THEN [panic |-> FALSE, value |-> self[l.ident],
               self |-> [self EXCEPT ![l.ident] = None]]
         ELSE [panic |-> FALSE, value |-> None, self |-> self]
    ELSE IF is_none(self[l.ident])
         THEN [panic |-> TRUE, value |-> None, self |-> self]
         ELSE [panic |-> FALSE, value |-> unwrap(self[l.ident]),
               self |-> [self EXCEPT ![l.ident] = None]]

\* the let statements in order: <<panicked, values of the locals so far, self>>
RECURSIVE Drain(_, _, _)
Drain(ls, done, self) ==
    IF ls = <<>> THEN [panic |-> FALSE, values |-> done, self |-> self]
    ELSE LET one == DrainOne(Head(ls), self)
         IN  IF one.panic
             THEN [panic |-> TRUE, values |-> done, self |-> one.self]
             ELSE Drain(Tail(ls),
                        Append(done, [local |-> Head(ls).local, value |-> one.value]),
                        one.self)

LocalValue(values, local) ==
    values[CHOOSE i \in 1..Len(values) : values[i].local = local].value

Instance(inits, values) ==
    [id \in Idents(inits) |-> LocalValue(values, ItemFor(inits, id).local)]

\* build that drains before it looks at the outcome of the validation
BuildDrainsFirst(code, b, self) ==
    LET msg == assert_non_missing_values(code.build.checkers, self)
        drained == Drain(code.build.locals, <<>>, self)
    IN  IF msg # "" THEN [ret |-> Err(b, msg), self |-> drained.self]
        ELSE IF drained.panic THEN [ret |-> Panic(b), self |-> drained.self]
        ELSE [ret |-> Ok(b, Instance(code.build.initializers, drained.values)),
              self |-> drained.self]

\* build on builder b: <<what it returns, what is left in self>>
build(code, b, self) ==
    LET msg == assert_non_missing_values(code.build.checkers, self)
        drained == Drain(code.build.locals, <<>>, self)
    IN  IF msg # "" THEN [ret |-> Err(b, msg), self |-> self]
        ELSE IF drained.panic THEN [ret |-> Panic(b), self |-> drained.self]
        ELSE [ret |-> Ok(b, Instance(code.build.initializers, drained.values)),
              self |-> drained.self]

(***************************************************************************)
(* The state machine: the expansion, then calls on the emitted items.      *)
(***************************************************************************)
Init ==
    /\ input \in Inputs
    /\ gen = NotRun
    /\ compiled = FALSE
    /\ builders = <<>>
    /\ passed = <<>>
    /\ nBuilds = <<>>
    /\ calls = 0
    /\ last = NoCall
    /\ ret = NoRet
    /\ prev = NoRet

Expand ==
    /\ gen = NotRun
    /\ gen' = derive(input)
    /\ UNCHANGED <<input, compiled, builders, passed, nBuilds, calls, last, ret, prev>>

\* rustc accepts the expansion; from here on the emitted items can be called
Compile ==
    /\ ~compiled
    /\ Runnable(input, gen)
    /\ compiled' = TRUE
    /\ UNCHANGED <<input, gen, builders, passed, nBuilds, calls, last, ret, prev>>

\* a panic ends the program
Running == compiled /\ ret.kind # "Panic"

\* one storage shared by every builder
StoreShared(bs, b, self) == [c \in DOMAIN bs |-> self]

\* a method taking &mut self writes the builder it was called on
Store(bs, b, self) == [bs EXCEPT ![b] = self]

CallBuilder(maxBuilders) ==
    /\ Running
    /\ Len(builders) < maxBuilders
    /\ builders' = Append(builders, builder(gen))
    /\ passed' = Append(passed, [id \in Idents(gen.defaults) |-> <<>>])
    /\ nBuilds' = Append(nBuilds, 0)
    /\ last' = [op |-> "builder", b |-> Len(builders) + 1, name |-> "builder"]
    /\ ret' = BuilderRet(Len(builders) + 1)
    /\ prev' = ret
    /\ UNCHANGED <<input, gen, compiled, calls>>

CallMutator(b, i, v, maxCalls) ==
    /\ Running
    /\ calls < maxCalls
    /\ b \in 1..Len(builders)
    /\ i \in 1..Len(gen.setters)
    /\ LET s == gen.setters[i]
       IN  /\ builders' = Store(builders, b, Mutate(builders[b], s, v))
           /\ passed' = [passed EXCEPT ![b][s.field] = Append(@, v)]
           /\ last' = [op |-> "mutator", b |-> b, name |-> s.name]
    /\ ret' = SelfRef(b)
    /\ prev' = ret
    /\ calls' = calls + 1
    /\ UNCHANGED <<input, gen, compiled, nBuilds>>

CallBuild(b, maxCalls) ==
    /\ Running
    /\ calls < maxCalls
    /\ b \in 1..Len(builders)
    /\ LET r == build(gen, b, builders[b])
       IN  /\ builders' = Store(builders, b, r.self)
           /\ ret' = r.ret
    /\ prev' = ret
    /\ nBuilds' = [nBuilds EXCEPT ![b] = @ + 1]
    /\ last' = [op |-> "build", b |-> b, name |-> "build"]
    /\ calls' = calls + 1
    /\ UNCHANGED <<input, gen, compiled, passed>>

Next ==
    \/ Expand
    \/ Compile
    \/ CallBuilder(1)
    \/ \E b \in 1..Len(builders), i \in 1..Len(FieldNames), v \in Values :
           CallMutator(b, i, v, MaxCalls)
    \/ \E b \in 1..Len(builders) : CallBuild(b, MaxCalls)

Spec == Init /\ [][Next]_vars

NextTwo ==
    \/ Expand
    \/ Compile
    \/ CallBuilder(MaxBuilders)
    \/ \E b \in 1..Len(builders), i \in 1..Len(FieldNames), v \in Values :
           CallMutator(b, i, v, MaxCallsTwo)
    \/ \E b \in 1..Len(builders) : CallBuild(b, MaxCallsTwo)

SpecTwo == Init /\ [][NextTwo]_vars

(***************************************************************************)
(* The vocabulary of the claims: the kind the documentation gives a field, *)
(* read off its declaration alone.                                         *)
(***************************************************************************)
Annotated(f) ==
    \E i \in 1..Len(f.attrs) : f.attrs[i].meta = "List" /\ f.attrs[i].path = "builder"

NullableWrapper(f) ==
    /\ f.ty.kind = "Path"
    /\ Len(f.ty.segments) = 1
    /\ f.ty.segments[1].ident = "Option"
    /\ f.ty.segments[1].arguments = "AngleBracketed"
    /\ Len(f.ty.segments[1].args) = 1

KindOf(f) ==
    IF Annotated(f) THEN "Accumulating"
    ELSE IF NullableWrapper(f) THEN "Optional"
    ELSE "Required"

FieldsOf(kind) == { i \in 1..Len(input.named) : KindOf(input.named[i]) = kind }

IdentOf(i) == input.named[i].ident

BuildCall(b) == [op |-> "build", b |-> b, name |-> "build"]

\* this step is a call of build on builder b
BuildStep(b) == b \in 1..Len(nBuilds) /\ nBuilds'[b] = nBuilds[b] + 1

\* the Required fields whose storage is absent in self
MissingRequired(self) == { i \in FieldsOf("Required") : self[IdentOf(i)] = None }

FirstOf(S) == CHOOSE i \in S : \A j \in S : i <= j

\* C1: in a record whose fields are all Required, when every setter has been
\* called exactly once (in any order) and build is called next, build returns
\* Ok and each field of the record is the value passed to that field's setter.
C1_SettersOnceThenBuild ==
    \A b \in 1..Len(builders) :
        ( /\ FieldsOf("Required") = 1..Len(input.named)
          /\ last = BuildCall(b)
          /\ nBuilds[b] = 1
          /\ \A i \in 1..Len(input.named) : Len(passed[b][IdentOf(i)]) = 1 )
        => /\ ret.kind = "Ok"
           /\ ret.b = b
           /\ DOMAIN ret.instance = Idents(input.named)
           /\ \A i \in 1..Len(input.named) :
                  ret.instance[IdentOf(i)] = Str(passed[b][IdentOf(i)][1])

C1_Witness ==
    /\ Len(input.named) = 3
    /\ FieldsOf("Required") = {1, 2, 3}
    /\ Len(builders) = 1
    /\ last = BuildCall(1)
    /\ nBuilds[1] = 1
    /\ passed[1] = [name |-> <<"a">>, note |-> <<"b">>, tag |-> <<"a">>]
    /\ ret.kind = "Ok"
    /\ ret.instance = [name |-> Str("a"), note |-> Str("b"), tag |-> Str("a")]

\* C2: whenever build is called while the storage of at least one Required
\* field is absent, it returns Err with the message naming the first such
\* field in declaration order, and the message of no other field.
C2_FirstMissingNamed ==
    [][ \A b \in 1..Len(builders) :
          (BuildStep(b) /\ MissingRequired(builders[b]) # {})
          => /\ ret' = Err(b, MissingMsg(IdentOf(FirstOf(MissingRequired(builders[b])))))
             /\ \A i \in 1..Len(input.named) :
                    i # FirstOf(MissingRequired(builders[b]))
                    => ret'.msg # MissingMsg(IdentOf(i)) ]_vars

C2_Witness ==
    /\ Len(input.named) = 3
    /\ FieldsOf("Required") = {1, 2, 3}
    /\ Len(builders) = 1
    /\ last = BuildCall(1)
    /\ builders[1] = [name |-> Some("a"), note |-> None, tag |-> None]
    /\ ret = Err(1, MissingMsg("note"))

\* the previous call was a build on builder b that returned Ok, and the last
\* call is a build on b again
BuiltTwice(b) == last = BuildCall(b) /\ prev.kind = "Ok" /\ prev.b = b

\* C3 as claimed: once build has succeeded, a further build with no call in
\* between succeeds too and returns a record equal to the first one.
C3_AsClaimed ==
    \A b \in 1..Len(builders) :
        BuiltTwice(b) => ret.kind = "Ok" /\ ret.instance = prev.instance

\* C3: build can be called again on the same builder and validates and
\* drains the storage as the first build left it: with a Required field in
\* the record the further build returns Err naming the first Required field;
\* with none it returns Ok, the Accumulating fields equal to those of the
\* first record and the Optional fields absent.
C3_RepeatedBuild ==
    \A b \in 1..Len(builders) :
        BuiltTwice(b) =>
            IF FieldsOf("Required") # {}
            THEN ret = Err(b, MissingMsg(IdentOf(FirstOf(FieldsOf("Required")))))
            ELSE /\ ret.kind = "Ok"
                 /\ DOMAIN ret.instance = DOMAIN prev.instance
                 /\ \A i \in FieldsOf("Accumulating") :
                        ret.instance[IdentOf(i)] = prev.instance[IdentOf(i)]
                 /\ \A i \in FieldsOf("Optional") : ret.instance[IdentOf(i)] = None

C3_Witness ==
    /\ Len(input.named) = 3
    /\ KindOf(input.named[1]) = "Required"
    /\ KindOf(input.named[2]) = "Optional"
    /\ KindOf(input.named[3]) = "Accumulating"
    /\ BuiltTwice(1)
    /\ prev.instance = [name |-> Str("a"), note |-> Some("b"), tag |-> VecOf(<<"a">>)]
    /\ ret = Err(1, MissingMsg("name"))

\* C4 as claimed: build yields the appended values in call order, a second
\* build with no further appends yields the same sequence, and the storage
\* of the field is the same after build as before it.
C4_AsClaimed ==
    \A b \in 1..Len(builders) : \A i \in FieldsOf("Accumulating") :
        /\ compiled => builders[b][IdentOf(i)] = VecOf(passed[b][IdentOf(i)])
        /\ (last = BuildCall(b) /\ ret.kind = "Ok")
           => ret.instance[IdentOf(i)] = VecOf(passed[b][IdentOf(i)])
        /\ BuiltTwice(b)
           => ret.kind = "Ok" /\ ret.instance[IdentOf(i)] = prev.instance[IdentOf(i)]

\* C4: a build that returns Ok yields, for an Accumulating field, the
\* appended values in call order; the storage of the field always holds
\* exactly the appended values, so build leaves it as it was; a second build
\* with no call in between yields the same sequence if the record has no
\* Required field and returns Err otherwise.
C4_AppendedInOrder ==
    \A b \in 1..Len(builders) : \A i \in FieldsOf("Accumulating") :
        /\ compiled => builders[b][IdentOf(i)] = VecOf(passed[b][IdentOf(i)])
        /\ (last = BuildCall(b) /\ ret.kind = "Ok")
           => ret.instance[IdentOf(i)] = VecOf(passed[b][IdentOf(i)])
        /\ BuiltTwice(b)
           => IF FieldsOf("Required") = {}
              THEN ret.kind = "Ok" /\ ret.instance[IdentOf(i)] = prev.instance[IdentOf(i)]
              ELSE ret.kind = "Err"

C4_Witness ==
    /\ Len(input.named) = 3
    /\ FieldsOf("Required") = {}
    /\ KindOf(input.named[3]) = "Accumulating"
    /\ BuiltTwice(1)
    /\ passed[1].tag = <<"a", "b">>
    /\ prev.instance.tag = VecOf(<<"a", "b">>)
    /\ ret.kind = "Ok"
    /\ ret.instance.tag = VecOf(<<"a", "b">>)
    /\ builders[1].tag = VecOf(<<"a", "b">>)

\* C5: whenever build is called with the storage of every Required field
\* populated it returns Ok, whatever the Optional and Accumulating fields
\* hold; an Optional field never set is absent in the record and an
\* Accumulating field never appended to is the empty sequence.
C5_OnlyRequiredValidated ==
    [][ \A b \in 1..Len(builders) :
          (BuildStep(b) /\ MissingRequired(builders[b]) = {})
          => /\ ret'.kind = "Ok"
             /\ ret'.b = b
             /\ \A i \in FieldsOf("Optional") :
                    passed[b][IdentOf(i)] = <<>> => ret'.instance[IdentOf(i)] = None
             /\ \A i \in FieldsOf("Accumulating") :
                    passed[b][IdentOf(i)] = <<>> => ret'.instance[IdentOf(i)] = VecOf(<<>>) ]_vars

C5_Witness ==
    /\ Len(input.named) = 3
    /\ KindOf(input.named[1]) = "Required"
    /\ KindOf(input.named[2]) = "Optional"
    /\ KindOf(input.named[3]) = "Accumulating"
    /\ last = BuildCall(1)
    /\ passed[1] = [name |-> <<"a">>, note |-> <<>>, tag |-> <<>>]
    /\ ret = Ok(1, [name |-> Str("a"), note |-> None, tag |-> VecOf(<<>>)])

\* what build puts in the record for a field of the given kind whose
\* storage is o
FromStorage(kind, o, v) ==
    IF kind = "Required" THEN is_some(o) /\ v = Str(o.val[1]) ELSE v = o

\* C6: from every reachable builder state a call of build returns either Ok
\* with a record in which every field is filled from the storage, or Err
\* with a message and no record; it never panics, so the unwrap of a
\* Required field is only reached with the field populated.
C6_OkOrErr ==
    [][ \A b \in 1..Len(builders) :
          BuildStep(b)
          => \/ /\ ret'.kind = "Ok"
                /\ DOMAIN ret'.instance = Idents(input.named)
                /\ \A i \in 1..Len(input.named) :
                       FromStorage(KindOf(input.named[i]), builders[b][IdentOf(i)],
                                   ret'.instance[IdentOf(i)])
             \/ /\ ret'.kind = "Err"
                /\ ret'.msg # ""
                /\ ret'.instance = NoInstance ]_vars

C6_Witness ==
    /\ FieldsOf("Required") = {1, 2, 3}
    /\ last = BuildCall(1)
    /\ nBuilds[1] = 2
    /\ ret = Ok(1, [name |-> Str("a"), note |-> Str("b"), tag |-> Str("a")])

LastOf(s) == s[Len(s)]

\* the Required fields whose setter was never called on builder b
NeverSet(b) == { i \in FieldsOf("Required") : passed[b][IdentOf(i)] = <<>> }

\* C7: the first build on a builder, after any interleaving of mutator
\* calls: if every Required field was set at least once it returns Ok with
\* each Required field the last value set, each Optional field the last
\* value set or absent if never set, and each Accumulating field the
\* appended values in call order; if the setter of a Required field was never
\* called it returns Err naming the first such field.
C7_FirstBuild ==
    \A b \in 1..Len(builders) :
        (last = BuildCall(b) /\ nBuilds[b] = 1) =>
            IF NeverSet(b) = {}
            THEN /\ ret.kind = "Ok"
                 /\ \A i \in FieldsOf("Required") :
                        ret.instance[IdentOf(i)] = Str(LastOf(passed[b][IdentOf(i)]))
                 /\ \A i \in FieldsOf("Optional") :
                        ret.instance[IdentOf(i)] =
                            IF passed[b][IdentOf(i)] = <<>> THEN None
                            ELSE Some(LastOf(passed[b][IdentOf(i)]))
                 /\ \A i \in FieldsOf("Accumulating") :
                        ret.instance[IdentOf(i)] = VecOf(passed[b][IdentOf(i)])
            ELSE ret = Err(b, MissingMsg(IdentOf(FirstOf(NeverSet(b)))))

C7_Witness ==
    /\ input = NamedStruct(<<Field("name", TyString, <<>>),
                             Field("note", TyOptionString, <<>>),
                             Field("tag", TyVecString, <<Each("push_tag")>>)>>)
    /\ last = BuildCall(1)
    /\ nBuilds[1] = 1
    /\ passed[1] = [name |-> <<"b", "a">>, note |-> <<>>, tag |-> <<"a", "b">>]
    /\ ret = Ok(1, [name |-> Str("a"), note |-> None, tag |-> VecOf(<<"a", "b">>)])

\* the zero-value state of a builder: absent, or the empty sequence for an
\* Accumulating field
ZeroValue == [id \in Idents(input.named) |->
                 IF \E i \in FieldsOf("Accumulating") : IdentOf(i) = id
                 THEN VecOf(<<>>) ELSE None]

\* C8: every call of the factory returns a builder in the zero-value state,
\* and a call on one builder (the factory included) leaves the storage of
\* every other builder unchanged.
C8_IndependentStorage ==
    [][ /\ Len(builders') > Len(builders) => builders'[Len(builders')] = ZeroValue
        /\ \A b \in 1..Len(builders) :
               builders'[b] # builders[b] => last'.b = b /\ calls' = calls + 1 ]_vars

C8_Witness ==
    /\ Len(builders) = 2
    /\ last.op = "mutator"
    /\ last.b = 1
    /\ prev = BuilderRet(2)
    /\ builders[2] = ZeroValue
    /\ builders[1] # ZeroValue

(***************************************************************************)
(* The kind a stage treats a field as, read off the item it emitted.       *)
(***************************************************************************)
Wrapped(ty) ==
    [kind |-> "Path",
     segments |-> <<Seg("std", "None", <<>>), Seg("option", "None", <<>>),
                    Seg("Option", "AngleBracketed", <<RenderTy(ty)>>)>>]

StorageTreatsAs(kind, f, item) ==
    IF kind = "Required" THEN item.ty = Wrapped(f.ty) ELSE item.ty = f.ty

DefaultTreatsAs(kind, d) ==
    IF kind = "Accumulating" THEN d.value = "Vec::new()"
    ELSE d.value = "std::option::Option::None"

MutatorTreatsAs(kind, f, s) ==
    IF kind = "Accumulating" THEN s.body = "push"
    ELSE IF kind = "Optional"
         THEN s.body = "set_some" /\ s.name = f.ident /\ s.arg = f.ty.segments[1].args[1]
         ELSE s.body = "set_some" /\ s.name = f.ident /\ s.arg = RenderTy(f.ty)

ValidationTreatsAs(kind, f, checkers) ==
    (kind = "Required") <=> (\E c \in 1..Len(checkers) : checkers[c].ident = f.ident)

DrainTreatsAs(kind, l) ==
    l.drain = IF kind = "Accumulating" THEN "clone"
              ELSE IF kind = "Optional" THEN "take_if_some"
              ELSE "take_unwrap"

\* C9 as claimed: for every combination of annotation and nullable wrapper,
\* the storage type, the zero value, the mutator, the validation and the
\* drain emitted for a field all treat it as the one kind its declaration
\* gives it, Accumulating whenever the annotation is present.
C9_AsClaimed ==
    gen.status = "emitted" =>
        \A i \in 1..Len(input.named) :
            LET f == input.named[i]
                kind == KindOf(f)
            IN  /\ StorageTreatsAs(kind, f, gen.builder_fields[i])
                /\ DefaultTreatsAs(kind, gen.defaults[i])
                /\ MutatorTreatsAs(kind, f, gen.setters[i])
                /\ ValidationTreatsAs(kind, f, gen.build.checkers)
                /\ DrainTreatsAs(kind, gen.build.locals[i])

PlainNamed == input.data = "Struct" /\ input.fields = "Named"

\* a field none of the later stages panics on
WellFormed(f) ==
    /\ \A i \in 1..Len(f.attrs) : f.attrs[i].meta # "Err"
    /\ (f.ty.kind = "Path" /\ f.ty.segments[1].ident = "Option") => NullableWrapper(f)
    /\ \A i \in 1..Len(f.attrs) :
           (f.attrs[i].meta = "List" /\ f.attrs[i].path = "builder")
           => /\ Len(f.attrs[i].nested) = 1
              /\ f.attrs[i].nested[1].kind = "NameValue"
              /\ f.attrs[i].nested[1].lit = "Str"
              /\ f.attrs[i].nested[1].value # ""

\* C10: once derive has run, a declaration that is not a plain named-field
\* record (an enum, a union, a tuple or a unit record) has aborted the
\* expansion and nothing is emitted; for a plain named-field record the
\* field list is handed on: with well-formed fields the builder is emitted
\* with one storage field per declared field, in order, and an abort is due
\* to a field that is not well formed.
C10_InspectorRejects ==
    gen # NotRun =>
        /\ ~PlainNamed => gen = Aborted
        /\ (PlainNamed /\ \A i \in 1..Len(input.named) : WellFormed(input.named[i]))
           => /\ gen.status = "emitted"
              /\ Len(gen.builder_fields) = Len(input.named)
              /\ \A i \in 1..Len(input.named) :
                     gen.builder_fields[i].ident = input.named[i].ident
        /\ (PlainNamed /\ gen = Aborted)
           => \E i \in 1..Len(input.named) : ~WellFormed(input.named[i])

C10_Witness ==
    /\ input.data = "Struct"
    /\ input.fields = "Unnamed"
    /\ gen = Aborted

\* C11 as claimed: after a build that returned Ok the storage of an Optional
\* field is what it was, that is what the record holds, and a value once set
\* is delivered by every later build until the setter is called again.
C11_AsClaimed ==
    \A b \in 1..Len(builders) : \A i \in FieldsOf("Optional") :
        (last = BuildCall(b) /\ ret.kind = "Ok")
        => /\ builders[b][IdentOf(i)] = ret.instance[IdentOf(i)]
           /\ passed[b][IdentOf(i)] # <<>>
              => ret.instance[IdentOf(i)] = Some(LastOf(passed[b][IdentOf(i)]))

\* C11: a build that returns Ok puts in the record, for an Optional field,
\* what the storage held at the time of the call and leaves that storage
\* absent; a build that returns Err leaves it as it was.  A value set on an
\* Optional field is so delivered by the next build that returns Ok, and by
\* no later one until the setter is called again.
C11_OptionalTaken ==
    [][ \A b \in 1..Len(builders) : \A i \in FieldsOf("Optional") :
          BuildStep(b)
          => /\ ret'.kind = "Ok"
                => /\ ret'.instance[IdentOf(i)] = builders[b][IdentOf(i)]
                   /\ builders'[b][IdentOf(i)] = None
             /\ ret'.kind = "Err"
                => builders'[b][IdentOf(i)] = builders[b][IdentOf(i)] ]_vars

C11_Witness ==
    /\ Len(input.named) = 3
    /\ FieldsOf("Required") = {}
    /\ KindOf(input.named[2]) = "Optional"
    /\ BuiltTwice(1)
    /\ passed[1].note = <<"a">>
    /\ prev.instance.note = Some("a")
    /\ ret.kind = "Ok"
    /\ ret.instance.note = None
    /\ builders[1].note = None

\* a field with no builder annotation whose attributes all parse
Unannotated(f) ==
    /\ ~Annotated(f)
    /\ \A a \in 1..Len(f.attrs) : f.attrs[a].meta # "Err"

\* C12 as claimed: a plain named-field record whose fields carry no builder
\* annotation never aborts generation, and every stage treats each field as
\* Optional if its outer type is Option with exactly one generic argument
\* (that argument being the setter's parameter type) and as Required for
\* every other type, the bare wrapper name and a longer path included.
C12_AsClaimed ==
    (/\ gen # NotRun
     /\ PlainNamed
     /\ \A i \in 1..Len(input.named) : Unannotated(input.named[i]))
    => /\ gen.status = "emitted"
       /\ \A i \in 1..Len(input.named) :
              LET f == input.named[i]
                  kind == IF NullableWrapper(f) THEN "Optional" ELSE "Required"
              IN  /\ StorageTreatsAs(kind, f, gen.builder_fields[i])
                  /\ DefaultTreatsAs(kind, gen.defaults[i])
                  /\ MutatorTreatsAs(kind, f, gen.setters[i])
                  /\ ValidationTreatsAs(kind, f, gen.build.checkers)
                  /\ DrainTreatsAs(kind, gen.build.locals[i])

\* the first builder annotation of an annotated field
BuilderAttr(f) ==
    f.attrs[CHOOSE i \in 1..Len(f.attrs) :
                /\ f.attrs[i].meta = "List" /\ f.attrs[i].path = "builder"
                /\ \A j \in 1..(i - 1) :
                       ~(f.attrs[j].meta = "List" /\ f.attrs[j].path = "builder")]

\* the annotation has exactly one argument, of the form key = "string"
OneStringArgument(f) ==
    /\ Len(BuilderAttr(f).nested) = 1
    /\ BuilderAttr(f).nested[1].kind = "NameValue"
    /\ BuilderAttr(f).nested[1].lit = "Str"

\* C13 as claimed: in a plain named-field record whose attributes all parse
\* and whose unannotated fields are well formed, generation succeeds exactly
\* when the annotation of every annotated field has one key = value argument
\* whose value is a string literal, whatever the key; the string is then the
\* name of that field's appender.
C13_AsClaimed ==
    (/\ gen # NotRun
     /\ PlainNamed
     /\ \A i \in 1..Len(input.named) :
            Unannotated(input.named[i]) => WellFormed(input.named[i])
     /\ \A i \in 1..Len(input.named) : \A a \in 1..Len(input.named[i].attrs) :
            input.named[i].attrs[a].meta # "Err")
    => /\ gen.status = "emitted"
          <=> \A i \in 1..Len(input.named) :
                  Annotated(input.named[i]) => OneStringArgument(input.named[i])
       /\ gen.status = "emitted"
          => \A i \in 1..Len(input.named) :
                 Annotated(input.named[i])
                 => /\ gen.setters[i].body = "push"
                    /\ gen.setters[i].name = BuilderAttr(input.named[i]).nested[1].value

\* C14 as claimed: the emitted builder has one storage field per declared
\* field, in declaration order, and its zero value fits the storage of the
\* field's kind: Required is stored as Option over the declared type and
\* starts absent, Optional keeps its declared Option type and starts absent,
\* Accumulating is stored as a sequence and starts empty.
C14_AsClaimed ==
    gen.status = "emitted" =>
        /\ Len(gen.builder_fields) = Len(input.named)
        /\ Len(gen.defaults) = Len(input.named)
        /\ \A i \in 1..Len(input.named) :
               LET f == input.named[i]
                   kind == KindOf(f)
               IN  /\ gen.builder_fields[i].ident = f.ident
                   /\ gen.defaults[i].ident = f.ident
                   /\ StorageTreatsAs(kind, f, gen.builder_fields[i])
                   /\ DefaultTreatsAs(kind, gen.defaults[i])
                   /\ kind = "Accumulating" => IsVecTy(gen.builder_fields[i].ty)

\* C15 as claimed: one mutator is emitted per field; for a Required or an
\* Optional field it is a setter named after the field, for an Accumulating
\* field it is an appender named by the annotation's string that pushes one
\* element, and no mutator has the Accumulating field's own name unless the
\* annotation's string is that name.
C15_AsClaimed ==
    gen.status = "emitted" =>
        /\ Len(gen.setters) = Len(input.named)
        /\ \A i \in 1..Len(input.named) :
               LET f == input.named[i]
                   s == gen.setters[i]
               IN  /\ s.field = f.ident
                   /\ KindOf(f) \in {"Required", "Optional"}
                      => s.body = "set_some" /\ s.name = f.ident
                   /\ KindOf(f) = "Accumulating"
                      => /\ s.body = "push"
                         /\ s.name = BuilderAttr(f).nested[1].value
                         /\ \A j \in 1..Len(gen.setters) :
                                gen.setters[j].name = f.ident
                                => BuilderAttr(f).nested[1].value = f.ident

\* C16: a build that returns Err leaves the storage of every field of the
\* builder, Required, Optional and Accumulating, as it was before the call.
C16_FailedBuildKeepsStorage ==
    [][ \A b \in 1..Len(builders) :
          (BuildStep(b) /\ ret'.kind = "Err") => builders'[b] = builders[b] ]_vars

C16_Witness ==
    /\ input = NamedStruct(<<Field("name", TyOptionString, <<>>),
                             Field("note", TyString, <<>>),
                             Field("tag", TyVecString, <<Each("push_tag")>>)>>)
    /\ last = BuildCall(1)
    /\ ret = Err(1, MissingMsg("note"))
    /\ builders[1] = [name |-> Some("a"), note |-> None, tag |-> VecOf(<<"a", "b">>)]

\* the name of the mutator the declaration gives a field
MutatorName(f) == IF Annotated(f) THEN BuilderAttr(f).nested[1].value ELSE f.ident

\* this step is a call, on builder b, of the mutator of field i
MutatorStep(b, i) ==
    /\ calls' = calls + 1
    /\ last'.op = "mutator"
    /\ last'.b = b
    /\ last'.name = MutatorName(input.named[i])

\* C17: a call of a field's mutator with value v changes the storage of that
\* field only: a setter leaves it populated with v whatever it held, an
\* appender leaves the sequence it held with v added at the end; the storage
\* of every other field of the builder is as before.
C17_MutatorFrame ==
    [][ \A b \in 1..Len(builders) : \A i \in 1..Len(input.named) :
          MutatorStep(b, i)
          => \E v \in Values :
                 /\ passed'[b][IdentOf(i)] = Append(passed[b][IdentOf(i)], v)
                 /\ builders'[b][IdentOf(i)] =
                        IF KindOf(input.named[i]) = "Accumulating"
                        THEN VecOf(Append(builders[b][IdentOf(i)].val, v))
                        ELSE Some(v)
                 /\ \A j \in 1..Len(input.named) :
                        j # i => builders'[b][IdentOf(j)] = builders[b][IdentOf(j)] ]_vars

C17_Witness ==
    /\ input = NamedStruct(<<Field("name", TyString, <<>>),
                             Field("note", TyOptionString, <<>>),
                             Field("tag", TyVecString, <<Each("push_tag")>>)>>)
    /\ last = [op |-> "mutator", b |-> 1, name |-> "name"]
    /\ passed[1] = [name |-> <<"a", "b">>, note |-> <<"a">>, tag |-> <<"a">>]
    /\ builders[1] = [name |-> Some("b"), note |-> Some("a"), tag |-> VecOf(<<"a">>)]

====
